---- MODULE Spec2Model ----
(***************************************************************************)
(* A model of the wgpu tutorial program: the two-alternative selector Flip *)
(* (src/src/main.rs), the Camera (src/src/camera.rs), the geometry data    *)
(* ModelData (src/src/model.rs) and the start-up and event loop of main    *)
(* (src/src/main.rs).                                                      *)
(*                                                                         *)
(* The camera's coordinates are of type f32.  An f32 is modelled bit for   *)
(* bit as a record [m, e] standing for the number m * 2^e: either zero     *)
(* (m = 0, e = 0) or a normal number with 2^23 <= |m| < 2^24.  Sums and    *)
(* products round to nearest, ties to even, as the hardware does.  The     *)
(* model covers finite numbers away from overflow and underflow (the       *)
(* invariant CameraIsFinite states it); the two zeros of f32, which        *)
(* compare equal, are one value here.                                      *)
(***************************************************************************)
EXTENDS Integers, Sequences, FiniteSets, TLC

----------------------------------------------------------------------------
(* f32 arithmetic *)

Abs(n) == IF n < 0 THEN -n ELSE n

Sgn(n) == IF n < 0 THEN -1 ELSE IF n = 0 THEN 0 ELSE 1

FZero == [m |-> 0, e |-> 0]

IsF32(x) ==
    \/ x = FZero
    \/ /\ 2^23 <= Abs(x.m) /\ Abs(x.m) < 2^24
       /\ -149 <= x.e /\ x.e <= 104

\* q rounded up when the discarded part rem is above half, or at half with q odd
RoundNE(q, rem, half) ==
    IF rem > half \/ (rem = half /\ q % 2 = 1) THEN q + 1 ELSE q

\* the f32 nearest to sign * R * 2^e, for a magnitude 0 <= R < 2^31
RECURSIVE FNorm(_, _, _)
FNorm(sign, R, e) ==
    IF R = 0 THEN FZero
    ELSE IF R < 2^23 THEN FNorm(sign, R * 2, e - 1)
    ELSE IF R < 2^24 THEN [m |-> sign * R, e |-> e]
    ELSE LET k == CHOOSE j \in 1..8 : 2^23 <= R \div 2^j /\ R \div 2^j < 2^24
             r == RoundNE(R \div 2^k, R % 2^k, 2^(k - 1))
         IN  IF r = 2^24 THEN [m |-> sign * 2^23, e |-> e + k + 1]
             ELSE [m |-> sign * r, e |-> e + k]

\* a + b in f32: the smaller operand is aligned with three extra bits, the
\* last of them sticky, which is enough to round the exact sum correctly
fadd(a, b) ==
    IF a.m = 0 THEN b
    ELSE IF b.m = 0 THEN a
    ELSE LET hi == IF a.e >= b.e THEN a ELSE b
             lo == IF a.e >= b.e THEN b ELSE a
             d == hi.e - lo.e
             L8 == Abs(lo.m) * 8
             q == IF d >= 28 THEN 0 ELSE L8 \div 2^d
             sticky == IF d >= 28 THEN TRUE ELSE L8 % 2^d # 0
             Lmag == IF sticky /\ q % 2 = 0 THEN q + 1 ELSE q
             S == hi.m * 8 + Sgn(lo.m) * Lmag
         IN  FNorm(Sgn(S), Abs(S), hi.e - 3)

fneg(a) == [m |-> -a.m, e |-> a.e]

fsub(a, b) == fadd(a, fneg(b))

\* a * b in f32: the 48-bit product of the mantissas, computed in 12-bit
\* limbs, rounded to 24 bits
fmul(a, b) ==
    IF a.m = 0 \/ b.m = 0 THEN FZero
    ELSE LET A == Abs(a.m)
             B == Abs(b.m)
             a1 == A \div 4096
             a0 == A % 4096
             b1 == B \div 4096
             b0 == B % 4096
             mid == a1 * b0 + a0 * b1
             low == (mid % 4096) * 4096 + a0 * b0
             lo == low % 2^24
             high == a1 * b1 + mid \div 4096 + low \div 2^24
             sign == Sgn(a.m) * Sgn(b.m)
             top == high >= 2^23
             q == IF top THEN high ELSE high * 2 + lo \div 2^23
             rem == IF top THEN lo ELSE lo % 2^23
             half == IF top THEN 2^23 ELSE 2^22
             e == a.e + b.e + (IF top THEN 24 ELSE 23)
             r == RoundNE(q, rem, half)
         IN  IF r = 2^24 THEN [m |-> sign * 2^23, e |-> e + 1]
             ELSE [m |-> sign * r, e |-> e]

\* a <= b: the sign of the rounded difference is the sign of the difference
fle(a, b) == fsub(a, b).m <= 0

fabs(a) == [m |-> Abs(a.m), e |-> a.e]

\* the f32 values the model names
F1 == [m |-> 8388608, e |-> -23]            \* 1.0

F2 == [m |-> 8388608, e |-> -22]            \* 2.0

F0_01 == [m |-> 10737418, e |-> -30]        \* 0.01

F0_001 == [m |-> 8589935, e |-> -33]        \* 0.001

F0_5 == [m |-> 8388608, e |-> -24]          \* 0.5

F0_75 == [m |-> 12582912, e |-> -24]        \* 0.75

F45 == [m |-> 11796480, e |-> -18]          \* 45.0

F0_1 == [m |-> 13421773, e |-> -27]         \* 0.1

F100 == [m |-> 13107200, e |-> -17]         \* 100.0

\* f32::sin and f32::cos, tabulated for the angles the model calls them with
\* (the correctly rounded values; sin is odd and cos is even)
Angles == {F0_01, fneg(F0_01), F0_5, fneg(F0_5)}

sin(a) ==
    CASE a = F0_01 -> [m |-> 10737239, e |-> -30]
      [] a = fneg(F0_01) -> [m |-> -10737239, e |-> -30]
      [] a = F0_5 -> [m |-> 16086852, e |-> -25]
      [] a = fneg(F0_5) -> [m |-> -16086852, e |-> -25]

cos(a) ==
    CASE a \in {F0_01, fneg(F0_01)} -> [m |-> 16776377, e |-> -24]
      [] a \in {F0_5, fneg(F0_5)} -> [m |-> 14723392, e |-> -24]

----------------------------------------------------------------------------
(* cgmath vectors and points of f32 *)

Vec(a, b, c) == [x |-> a, y |-> b, z |-> c]

unit_y == Vec(FZero, F1, FZero)

vadd(p, v) == Vec(fadd(p.x, v.x), fadd(p.y, v.y), fadd(p.z, v.z))

vsub(p, q) == Vec(fsub(p.x, q.x), fsub(p.y, q.y), fsub(p.z, q.z))

vscale(v, s) == Vec(fmul(v.x, s), fmul(v.y, s), fmul(v.z, s))

cross(a, b) ==
    Vec(fsub(fmul(a.y, b.z), fmul(a.z, b.y)),
        fsub(fmul(a.z, b.x), fmul(a.x, b.z)),
        fsub(fmul(a.x, b.y), fmul(a.y, b.x)))

dot(a, b) == fadd(fadd(fmul(a.x, b.x), fmul(a.y, b.y)), fmul(a.z, b.z))

----------------------------------------------------------------------------
(* Camera, src/src/camera.rs *)

\* Camera::new.  aspect is the quotient config.width / config.height, kept
\* as the pair of its operands.
CameraNew(width, height) ==
    [eye |-> Vec(FZero, F1, F2),
     target |-> Vec(FZero, FZero, FZero),
     up |-> unit_y,
     aspect |-> <<width, height>>,
     fovy |-> F45,
     znear |-> F0_1,
     zfar |-> F100]

\* Camera::to_uniform: the view-projection matrix, which is a function of
\* the camera's seven fields and of nothing else; the model keeps the fields
\* the matrix is computed from in place of its sixteen numbers.
to_uniform(c) == [view_proj |-> c]

\* The forward vector pan builds its offset from.  forwards.normalize()
\* returns the normalized vector and leaves forwards as it is; pan drops the
\* returned value, so the vector used is the flattened one, not normalized.
pan_forwards(c) ==
    LET forwards == vsub(c.target, c.eye)
    IN  [forwards EXCEPT !.y = FZero]

\* an offset that adds upwards unscaled, whatever mov.y is
pan_offset_unscaled_up(c, mov) ==
    LET forwards == pan_forwards(c)
        upwards == unit_y
        sideways == cross(forwards, upwards)
    IN  vadd(vadd(vscale(forwards, fneg(mov.z)), vscale(sideways, mov.x)),
             upwards)

pan_offset(c, mov) ==
    LET forwards == pan_forwards(c)
        upwards == unit_y
        sideways == cross(forwards, upwards)
    IN  vadd(vadd(vscale(forwards, fneg(mov.z)), vscale(sideways, mov.x)),
             vscale(upwards, mov.y))

\* a pan that moves the eye and forgets the target
pan_eye_only(c, mov) ==
    LET offset == pan_offset(c, mov)
    IN  [c EXCEPT !.eye = vadd(c.eye, offset)]

pan(c, mov) ==
    LET offset == pan_offset(c, mov)
    IN  [c EXCEPT !.eye = vadd(c.eye, offset),
                  !.target = vadd(c.target, offset)]

\* a rotation that scales the y component with the cosine as well
rotate_h_tilts(c, angle) ==
    LET sa == sin(angle)
        ca == cos(angle)
        off_target == vsub(c.target, c.eye)
        new_off_target ==
            Vec(fsub(fmul(off_target.x, ca), fmul(off_target.z, sa)),
                fmul(off_target.y, ca),
                fadd(fmul(off_target.z, ca), fmul(off_target.x, sa)))
    IN  [c EXCEPT !.target = vadd(c.eye, new_off_target)]

\* a rotation with the sign of the second sine term wrong
rotate_h_wrong_sign(c, angle) ==
    LET sa == sin(angle)
        ca == cos(angle)
        off_target == vsub(c.target, c.eye)
        new_off_target ==
            Vec(fsub(fmul(off_target.x, ca), fmul(off_target.z, sa)),
                off_target.y,
                fsub(fmul(off_target.z, ca), fmul(off_target.x, sa)))
    IN  [c EXCEPT !.target = vadd(c.eye, new_off_target)]

rotate_h(c, angle) ==
    LET sa == sin(angle)
        ca == cos(angle)
        off_target == vsub(c.target, c.eye)
        new_off_target ==
            Vec(fsub(fmul(off_target.x, ca), fmul(off_target.z, sa)),
                off_target.y,
                fadd(fmul(off_target.z, ca), fmul(off_target.x, sa)))
    IN  [c EXCEPT !.target = vadd(c.eye, new_off_target)]

\* a tilt that adds dy
rotate_v_adds(c, dy) == [c EXCEPT !.eye.y = fadd(c.eye.y, dy)]

rotate_v(c, dy) == [c EXCEPT !.eye.y = fsub(c.eye.y, dy)]

----------------------------------------------------------------------------
(* Flip<T>, src/src/main.rs *)

Flip_new(first, second) == [alternatives |-> <<first, second>>, state |-> FALSE]

\* a flip that sets the state instead of toggling it
Flip_flip_sets(f) == [f EXCEPT !.state = TRUE]

Flip_flip(f) == [f EXCEPT !.state = ~f.state]

\* alternatives[if state { 1 } else { 0 }], the tuple counted from 1 here
Flip_get(f) == f.alternatives[IF f.state THEN 2 ELSE 1]

----------------------------------------------------------------------------
(* ModelData, src/src/model.rs *)

\* A JSON number read into an f32 or a u16.  The numbers of the model's
\* files are small integers; an f32 holds the nearest representable value.
f32_of(n) == FNorm(Sgn(n), Abs(n), 0)

IsU16(n) == n \in 0..65535

\* The asset file: NoFile when it cannot be opened, else the JSON object in
\* it: a record of the members it has (a member it lacks is not in its
\* domain) and, as order, their names in the order they are written.
NoFile == [nofile |-> TRUE]

Has(f, field) == field \in DOMAIN f

\* What serde accepts for a field: an array, every element of the field's
\* type ([f32; 3], [f32; 2], u16).
IsArrayOf(v, n) == \A i \in 1..Len(v) : Len(v[i]) = n

IsU16Array(v) == \A i \in 1..Len(v) : IsU16(v[i])

Err(why) == [ok |-> FALSE, err |-> why]

Ok(v) == [ok |-> TRUE, value |-> v]

\* the least element of a set of numbers that is not empty
Least(S) == CHOOSE i \in S : \A j \in S : i <= j

\* what a read without an error has for its error
NoError == "no error"

\* the error of reading v as a Vec<[f32; n]>: the first element of another
\* length ends the read, a shorter one as an invalid length and a longer one
\* at its first extra number; NoError if there is none
ArrayError(v, n) ==
    LET bad == {i \in 1..Len(v) : Len(v[i]) # n}
    IN  IF bad = {} THEN NoError
        ELSE IF Len(v[Least(bad)]) < n THEN "invalid length"
        ELSE "trailing characters"

\* the error of reading the member of f called field, NoError if there is none
MemberError(f, field) ==
    LET why == CASE field = "positions" -> ArrayError(f.positions, 3)
                 [] field = "uvs" -> ArrayError(f.uvs, 2)
                 [] field = "indices" ->
                        IF IsU16Array(f.indices) THEN NoError
                        ELSE "invalid value"
    IN  IF why = NoError THEN NoError
        ELSE IF field = "positions" THEN "positions: " \o why
        ELSE IF field = "uvs" THEN "uvs: " \o why
        ELSE "indices: " \o why

\* the error of the first member, in the order of the file, that cannot be
\* read; NoError if every member can
FirstMemberError(f) ==
    LET bad == {i \in 1..Len(f.order) : MemberError(f, f.order[i]) # NoError}
    IN  IF bad = {} THEN NoError ELSE MemberError(f, f.order[Least(bad)])

\* the ModelData a well-formed file is read into
Deserialized(f) ==
    [positions |-> [i \in 1..Len(f.positions) |->
                       [k \in 1..3 |-> f32_of(f.positions[i][k])]],
     uvs |-> [i \in 1..Len(f.uvs) |->
                       [k \in 1..2 |-> f32_of(f.uvs[i][k])]],
     indices |-> f.indices]

\* a loader that reads a missing field as an empty array
load_defaults_missing(f) ==
    IF f = NoFile THEN Err("ModelData::load: open failed")
    ELSE IF FirstMemberError(f) # NoError THEN Err(FirstMemberError(f))
    ELSE Ok(Deserialized(
            [positions |-> IF Has(f, "positions") THEN f.positions ELSE <<>>,
             uvs |-> IF Has(f, "uvs") THEN f.uvs ELSE <<>>,
             indices |-> IF Has(f, "indices") THEN f.indices ELSE <<>>]))

\* ModelData::load: File::open, then serde_json::from_reader of the derived
\* Deserialize: the members are read in the order of the file and the first
\* of the wrong type ends the read; a field that never came is missed at
\* the end of the object, the fields being looked for in the order of the
\* struct.
load(f) ==
    IF f = NoFile THEN Err("ModelData::load: open failed")
    ELSE IF FirstMemberError(f) # NoError THEN Err(FirstMemberError(f))
    ELSE IF ~Has(f, "positions") THEN Err("missing field positions")
    ELSE IF ~Has(f, "uvs") THEN Err("missing field uvs")
    ELSE IF ~Has(f, "indices") THEN Err("missing field indices")
    ELSE Ok(Deserialized(f))

Min(a, b) == IF a <= b THEN a ELSE b

\* a zip that pairs the positions with the uvs in reverse order
vertices_reversed_uvs(md) ==
    LET n == Min(Len(md.positions), Len(md.uvs))
    IN  [i \in 1..n |->
            [position |-> md.positions[i], uv |-> md.uvs[n + 1 - i]]]

\* positions.iter().zip(uvs.iter()).map(..).collect(): zip stops with the
\* shorter of the two
vertices(md) ==
    [i \in 1..Min(Len(md.positions), Len(md.uvs)) |->
        [position |-> md.positions[i], uv |-> md.uvs[i]]]

indices(md) == md.indices

\* Model::new: the two buffers and the number of indices to draw
Model_new(md) ==
    [vertex_buffer |-> vertices(md),
     index_buffer |-> indices(md),
     num_vertices |-> Len(indices(md))]

----------------------------------------------------------------------------
(* The state *)

VARIABLES
    render_pipelines,   \* State::render_pipelines, the program's Flip
    flipLog,            \* history: the arguments of Flip::new, the number of
                        \* flip() calls, and the last get() with the number
                        \* of flips before it
    camera,             \* State::camera
    calls,              \* history: the last two camera calls, newest last,
                        \* each with its argument and the camera before it
    ncalls,             \* history: the number of camera calls
    file,               \* the contents of assets/rectangle.model
    model_data,         \* the result of ModelData::load
    vertices_out,       \* what the last vertices() returned
    indices_out,        \* what the last indices() returned
    pc,                 \* where main is: "start", "idle" (in the event loop,
                        \* between events), "updated" (in the RedrawRequested
                        \* handler, between update() and render()), "failed"
    start_error,        \* the error main returned with
    control_flow,       \* *control_flow
    size,               \* State::size
    config,             \* State::config (width and height)
    surface,            \* the surface: its configuration and how often it
                        \* was configured
    background_color,   \* State::background_color
    camera_buffer,      \* the contents of State::camera_buffer
    model,              \* State::model
    redraw_requested,   \* window.request_redraw() is pending
    render_result,      \* history: what the last render() returned
    frame,              \* history: the last frame presented
    nevents,            \* history: the number of events handled
    last_event,         \* history: the last event the loop handed to main's
                        \* closure
    nspace              \* history: the number of WindowEvents so far that
                        \* were a Space key in the Pressed state

flipVars == <<render_pipelines, flipLog>>

cameraVars == <<camera, calls, ncalls>>

dataVars == <<file, model_data, vertices_out, indices_out>>

appVars == <<pc, start_error, control_flow, size, config, surface,
             background_color, camera_buffer, model, redraw_requested,
             render_result, frame, nevents, last_event, nspace>>

vars == <<flipVars, cameraVars, dataVars, appVars>>

\* what a variable holds before it is given a value: None where the values
\* are strings, Unset where they are records
None == "none"

Unset == [unset |-> TRUE]

\* the bounds of the model
MaxFlips == 4

MaxCalls == 3

MaxEvents == 3

\* the parts of the state before anything is built
BlankFlip == render_pipelines = Unset /\ flipLog = Unset

BlankCamera == camera = Unset /\ calls = <<>> /\ ncalls = 0

BlankData ==
    /\ file = NoFile
    /\ model_data = Unset
    /\ vertices_out = Unset
    /\ indices_out = Unset

BlankApp ==
    /\ pc = "start"
    /\ start_error = None
    /\ control_flow = "Poll"
    /\ size = Unset
    /\ config = Unset
    /\ surface = Unset
    /\ background_color = Unset
    /\ camera_buffer = Unset
    /\ model = Unset
    /\ redraw_requested = FALSE
    /\ render_result = None
    /\ frame = Unset
    /\ nevents = 0
    /\ last_event = Unset
    /\ nspace = 0

----------------------------------------------------------------------------
(* Flip on its own: Flip::new of any two values, then flip() and get() in *)
(* any order                                                              *)

Alternatives == {"A", "B", "C"}

InitFlip ==
    \E first \in Alternatives, second \in Alternatives :
        /\ render_pipelines = Flip_new(first, second)
        /\ flipLog = [first |-> first, second |-> second, nflips |-> 0,
                      got |-> None, got_after |-> 0]
        /\ BlankCamera /\ BlankData /\ BlankApp

CallFlip ==
    /\ flipLog.nflips < MaxFlips
    /\ render_pipelines' = Flip_flip(render_pipelines)
    /\ flipLog' = [flipLog EXCEPT !.nflips = @ + 1]
    /\ UNCHANGED <<cameraVars, dataVars, appVars>>

\* get(&self) borrows the Flip immutably: it returns and changes nothing
CallGet ==
    /\ flipLog' = [flipLog EXCEPT !.got = Flip_get(render_pipelines),
                                  !.got_after = flipLog.nflips]
    /\ UNCHANGED <<render_pipelines, cameraVars, dataVars, appVars>>

NextFlip == CallFlip \/ CallGet

SpecFlip == InitFlip /\ [][NextFlip]_vars

----------------------------------------------------------------------------
(* The camera on its own: Camera::new, then pan, rotate_h and rotate_v in *)
(* any order, with arguments from small sets that hold those main uses    *)

WindowSizes == {[width |-> 800, height |-> 600], [width |-> 1, height |-> 1]}

Movements ==
    {Vec(FZero, FZero, FZero),
     Vec(FZero, FZero, fneg(F0_01)),        \* the W key
     Vec(fneg(F0_01), FZero, FZero),        \* the A key
     Vec(FZero, fneg(F0_001), FZero),
     Vec(FZero, fneg(F1), FZero)}

Deltas == {F0_01, fneg(F0_01), F0_75}

InitCamera ==
    /\ camera = CameraNew(800, 600)
    /\ calls = <<>>
    /\ ncalls = 0
    /\ BlankFlip /\ BlankData /\ BlankApp

Logged(call) ==
    IF Len(calls) < 2 THEN Append(calls, call) ELSE <<calls[2], call>>

CallPan(mov) ==
    /\ ncalls < MaxCalls
    /\ camera' = pan(camera, mov)
    /\ calls' = Logged([op |-> "pan", arg |-> mov, before |-> camera])
    /\ ncalls' = ncalls + 1
    /\ UNCHANGED <<flipVars, dataVars, appVars>>

CallRotateH(angle) ==
    /\ ncalls < MaxCalls
    /\ camera' = rotate_h(camera, angle)
    /\ calls' = Logged([op |-> "rotate_h", arg |-> angle, before |-> camera])
    /\ ncalls' = ncalls + 1
    /\ UNCHANGED <<flipVars, dataVars, appVars>>

CallRotateV(dy) ==
    /\ ncalls < MaxCalls
    /\ camera' = rotate_v(camera, dy)
    /\ calls' = Logged([op |-> "rotate_v", arg |-> dy, before |-> camera])
    /\ ncalls' = ncalls + 1
    /\ UNCHANGED <<flipVars, dataVars, appVars>>

NextCamera ==
    \/ \E mov \in Movements : CallPan(mov)
    \/ \E angle \in Angles : CallRotateH(angle)
    \/ \E dy \in Deltas : CallRotateV(dy)

SpecCamera == InitCamera /\ [][NextCamera]_vars

----------------------------------------------------------------------------
(* ModelData on its own: load of a file, then vertices() and indices() *)

MaxVertices == 3

Position(i) == <<(i - 1) % 2, (i - 1) \div 2, 0>>

Uv(i) == <<(i - 1) % 2, (i - 1) \div 2>>

PositionLists ==
    {[i \in 1..n |-> Position(i)] : n \in 0..MaxVertices} \cup {<<<<0, 0>>>>}

UvLists ==
    {[i \in 1..n |-> Uv(i)] : n \in 0..MaxVertices} \cup {<<<<0, 0, 0>>>>}

IndexLists ==
    {[i \in 1..n |-> i - 1] : n \in 0..MaxVertices} \cup {<<0, 70000>>}

\* the orders the three members can be written in
Orders ==
    {<<"positions", "uvs", "indices">>, <<"positions", "indices", "uvs">>,
     <<"uvs", "positions", "indices">>, <<"uvs", "indices", "positions">>,
     <<"indices", "positions", "uvs">>, <<"indices", "uvs", "positions">>}

FullFiles ==
    {[positions |-> p, uvs |-> u, indices |-> i, order |-> o] :
        p \in PositionLists, u \in UvLists, i \in IndexLists, o \in Orders}

\* the file f with the member called field left out
Without(f, field) ==
    [k \in DOMAIN f \ {field} |->
        IF k = "order" THEN SelectSeq(f.order, LAMBDA name : name # field)
        ELSE f[k]]

Files ==
    {NoFile} \cup FullFiles
    \cup {Without(f, field) : f \in FullFiles,
                              field \in {"positions", "uvs", "indices"}}

InitModelData ==
    /\ file \in Files
    /\ model_data = Unset
    /\ vertices_out = Unset
    /\ indices_out = Unset
    /\ BlankFlip /\ BlankCamera /\ BlankApp

CallLoad ==
    /\ model_data = Unset
    /\ model_data' = load(file)
    /\ UNCHANGED <<file, vertices_out, indices_out, flipVars, cameraVars,
                   appVars>>

CallVertices ==
    /\ model_data # Unset
    /\ model_data.ok
    /\ vertices_out' = [value |-> vertices(model_data.value)]
    /\ UNCHANGED <<file, model_data, indices_out, flipVars, cameraVars,
                   appVars>>

CallIndices ==
    /\ model_data # Unset
    /\ model_data.ok
    /\ indices_out' = [value |-> indices(model_data.value)]
    /\ UNCHANGED <<file, model_data, vertices_out, flipVars, cameraVars,
                   appVars>>

NextModelData == CallLoad \/ CallVertices \/ CallIndices

SpecModelData == InitModelData /\ [][NextModelData]_vars

----------------------------------------------------------------------------
(* The program: main builds the State and runs the event loop *)

\* the errors main returns with before the surface is configured: of
\* WindowBuilder::build (line 434), request_adapter, request_device and
\* get_preferred_format
BeforeConfigure ==
    {"WindowBuilder::build failed", "Creating adapter failed",
     "RequestDeviceError", "Get preferred format failed"}

\* the errors State::new returns with after surface.configure and before
\* the camera is built: of File::open, image::load and Texture::from_image
AfterConfigure ==
    {"failed to open assets/tree.png", "failed to read tree as PNG",
     "Texture::from_image failed"}

\* how the calls of State::new before ModelData::load end
Backends == {"ok"} \cup BeforeConfigure \cup AfterConfigure

AppFiles ==
    LET f == [positions |-> [i \in 1..MaxVertices |-> Position(i)],
              uvs |-> [i \in 1..MaxVertices |-> Uv(i)],
              indices |-> [i \in 1..MaxVertices |-> i - 1],
              order |-> <<"positions", "uvs", "indices">>]
    IN  {NoFile, Without(f, "indices"), Without(f, "positions"),
         [f EXCEPT !.indices = <<0, 70000>>],
         [f EXCEPT !.indices = <<0, 70000>>, !.uvs = <<<<0, 0, 0>>>>,
                   !.order = <<"indices", "uvs", "positions">>],
         f}

Init ==
    /\ file \in AppFiles
    /\ model_data = Unset
    /\ vertices_out = Unset
    /\ indices_out = Unset
    /\ BlankFlip /\ BlankCamera /\ BlankApp

\* wgpu::Color: the four f64 channels, each counted in 320ths, which holds
\* 0.2 and every quotient position.x / size.width of the events below exactly
ColorUnit == 320

Color(r, g, b, a) == [r |-> r, g |-> g, b |-> b, a |-> a]

White == Color(ColorUnit, ColorUnit, ColorUnit, ColorUnit)

left_color == Color(ColorUnit, 0, 64, ColorUnit)

right_color == Color(0, ColorUnit, 64, ColorUnit)

\* position.x / self.size.width as f64
Quotient(x, width) == (x * ColorUnit) \div width

interpolate_color(from, to, factor) ==
    LET mix(f, t) == f + ((t - f) * factor) \div ColorUnit
    IN  Color(mix(from.r, to.r), mix(from.g, to.g), mix(from.b, to.b),
              mix(from.a, to.a))

\* main, lines 434-435: the window, State::new(&window), and the ? that
\* returns the error. On an error no State exists and the event loop is not
\* entered; the surface has been configured once if the error came after
\* line 174, and what State::new had built by then (the camera, its buffer,
\* the pipelines on a failing load) is dropped with it.
StateNew ==
    /\ pc = "start"
    /\ \E inner_size \in WindowSizes, backend \in Backends :
          LET configured == [config |-> inner_size, nconfigure |-> 1]
          IN  IF backend \in BeforeConfigure
              THEN /\ pc' = "failed"
                   /\ start_error' = backend
                   /\ UNCHANGED <<model_data, size, config, surface,
                                  background_color, camera, camera_buffer,
                                  render_pipelines, model>>
              ELSE IF backend \in AfterConfigure
              THEN /\ pc' = "failed"
                   /\ start_error' = backend
                   /\ surface' = configured
                   /\ UNCHANGED <<model_data, size, config,
                                  background_color, camera, camera_buffer,
                                  render_pipelines, model>>
              ELSE LET loaded == load(file)
                   IN  /\ model_data' = loaded
                       /\ surface' = configured
                       /\ IF ~loaded.ok
                          THEN /\ pc' = "failed"
                               /\ start_error' = loaded.err
                               /\ UNCHANGED <<size, config, background_color,
                                              camera, camera_buffer,
                                              render_pipelines, model>>
                          ELSE /\ pc' = "idle"
                               /\ start_error' = None
                               /\ size' = inner_size
                               /\ config' = inner_size
                               /\ background_color' = White
                               /\ camera' = CameraNew(inner_size.width,
                                                      inner_size.height)
                               /\ camera_buffer' = to_uniform(camera')
                               /\ render_pipelines' =
                                      Flip_new("render_pipeline",
                                               "render_pipeline_alter")
                               /\ model' = Model_new(loaded.value)
    /\ UNCHANGED <<flipLog, calls, ncalls, file, vertices_out, indices_out,
                   control_flow, redraw_requested, render_result, frame,
                   nevents, last_event, nspace>>

\* a resize that never configures the surface
resize_keeps_surface(new_size) ==
    IF new_size.width > 0 /\ new_size.height > 0
    THEN /\ size' = new_size
         /\ config' = [config EXCEPT !.width = new_size.width,
                                     !.height = new_size.height]
         /\ UNCHANGED surface
    ELSE UNCHANGED <<size, config, surface>>

\* State::resize
resize(new_size) ==
    IF new_size.width > 0 /\ new_size.height > 0
    THEN /\ size' = new_size
         /\ config' = [config EXCEPT !.width = new_size.width,
                                     !.height = new_size.height]
         /\ surface' = [config |-> config', nconfigure |-> surface.nconfigure + 1]
    ELSE UNCHANGED <<size, config, surface>>

Keys == {"Space", "W", "S", "A", "D", "PageUp", "PageDown", "Q", "E", "Up",
         "Down", "Escape", "X", None}

NewSizes == {[width |-> 1024, height |-> 768], [width |-> 0, height |-> 0]}

CursorXs == {0, 400}

Event(type) ==
    [type |-> type, state |-> None, virtual_keycode |-> None, x |-> 0,
     new_size |-> [width |-> 0, height |-> 0]]

WindowEvents ==
    {[Event("CursorMoved") EXCEPT !.x = x] : x \in CursorXs}
    \cup {[Event("KeyboardInput") EXCEPT !.state = st, !.virtual_keycode = k] :
             st \in {"Pressed", "Released"}, k \in Keys}
    \cup {[Event(t) EXCEPT !.new_size = n] :
             t \in {"Resized", "ScaleFactorChanged"}, n \in NewSizes}
    \cup {Event("CloseRequested"), Event("Focused")}

\* a key event of the Space key in the Pressed state
IsSpacePress(event) ==
    /\ event.type = "KeyboardInput"
    /\ event.state = "Pressed"
    /\ event.virtual_keycode = "Space"

\* what State::input does to the State and what it returns
Handled(flip, cam, color) ==
    [handled |-> TRUE, render_pipelines |-> flip, camera |-> cam,
     background_color |-> color]

NotHandled ==
    [handled |-> FALSE, render_pipelines |-> render_pipelines,
     camera |-> camera, background_color |-> background_color]

\* State::input, lines 329-378: the camera call each pressed key makes
KeyCall(vkey) ==
    LET step == F0_01
    IN  CASE vkey = "W" -> [op |-> "pan", arg |-> Vec(FZero, FZero, fneg(step))]
          [] vkey = "S" -> [op |-> "pan", arg |-> Vec(FZero, FZero, step)]
          [] vkey = "A" -> [op |-> "pan", arg |-> Vec(fneg(step), FZero, FZero)]
          [] vkey = "D" -> [op |-> "pan", arg |-> Vec(step, FZero, FZero)]
          [] vkey = "PageUp" -> [op |-> "pan", arg |-> Vec(FZero, step, FZero)]
          [] vkey = "PageDown" ->
                 [op |-> "pan", arg |-> Vec(FZero, fneg(step), FZero)]
          [] vkey = "Q" -> [op |-> "rotate_h", arg |-> fneg(step)]
          [] vkey = "E" -> [op |-> "rotate_h", arg |-> step]
          [] vkey = "Up" -> [op |-> "rotate_v", arg |-> step]
          [] vkey = "Down" -> [op |-> "rotate_v", arg |-> fneg(step)]

CameraKeys == {"W", "S", "A", "D", "PageUp", "PageDown", "Q", "E", "Up", "Down"}

\* the call of self.camera that a key's arm makes
CameraCall(c, call) ==
    CASE call.op = "pan" -> pan(c, call.arg)
      [] call.op = "rotate_h" -> rotate_h(c, call.arg)
      [] call.op = "rotate_v" -> rotate_v(c, call.arg)

\* an input that flips on every Space key event, pressed or released, and
\* handles nothing else
input_ignores_key_state(event) ==
    IF event.type = "KeyboardInput" /\ event.virtual_keycode = "Space"
    THEN Handled(Flip_flip(render_pipelines), camera, background_color)
    ELSE NotHandled

\* State::input
input(event) ==
    IF event.type = "CursorMoved"
    THEN Handled(render_pipelines, camera,
                 interpolate_color(left_color, right_color,
                                   Quotient(event.x, size.width)))
    ELSE IF event.type = "KeyboardInput" /\ event.state = "Pressed"
    THEN LET vkey == event.virtual_keycode
         IN  IF vkey = "Space"
             THEN Handled(Flip_flip(render_pipelines), camera,
                          background_color)
             ELSE IF vkey \in CameraKeys
             THEN Handled(render_pipelines,
                          CameraCall(camera, KeyCall(vkey)), background_color)
             ELSE NotHandled
    ELSE NotHandled

\* the closure of event_loop.run is between two events. It handles every
\* event it is given, whatever *control_flow is: after it has set Exit the
\* loop still hands it the events of the iteration it is in.
Running == pc = "idle" /\ nevents < MaxEvents

\* main, lines 437-460: a WindowEvent of the window
WindowEvent(event) ==
    /\ Running
    /\ nevents' = nevents + 1
    /\ last_event' = event
    /\ nspace' = IF IsSpacePress(event) THEN nspace + 1 ELSE nspace
    /\ \E r \in {input(event)} :
           /\ render_pipelines' = r.render_pipelines
           /\ camera' = r.camera
           /\ background_color' = r.background_color
           /\ IF r.handled
              THEN UNCHANGED <<control_flow, size, config, surface>>
              ELSE IF \/ event.type = "CloseRequested"
                      \/ /\ event.type = "KeyboardInput"
                         /\ event.state = "Pressed"
                         /\ event.virtual_keycode = "Escape"
              THEN /\ control_flow' = "Exit"
                   /\ UNCHANGED <<size, config, surface>>
              ELSE IF event.type \in {"Resized", "ScaleFactorChanged"}
              THEN /\ resize(event.new_size)
                   /\ UNCHANGED control_flow
              ELSE UNCHANGED <<control_flow, size, config, surface>>
    /\ UNCHANGED <<flipLog, calls, ncalls, dataVars, pc, start_error,
                   camera_buffer, model, redraw_requested, render_result,
                   frame>>

\* main, line 470
MainEventsCleared ==
    /\ Running
    /\ nevents' = nevents + 1
    /\ last_event' = Event("MainEventsCleared")
    /\ redraw_requested' = TRUE
    /\ UNCHANGED nspace
    /\ UNCHANGED <<flipVars, cameraVars, dataVars, pc, start_error,
                   control_flow, size, config, surface, background_color,
                   camera_buffer, model, render_result, frame>>

\* a redraw whose update writes nothing to the camera buffer
RedrawUpdate_skips_write ==
    /\ Running
    /\ nevents' = nevents + 1
    /\ last_event' = Event("RedrawRequested")
    /\ redraw_requested' = FALSE
    /\ UNCHANGED nspace
    /\ pc' = "updated"
    /\ UNCHANGED <<flipVars, cameraVars, dataVars, start_error, control_flow,
                   size, config, surface, background_color, camera_buffer,
                   model, render_result, frame>>

\* main, lines 461-462: RedrawRequested, asked for by request_redraw or by
\* the window system, starts with State::update
RedrawUpdate ==
    /\ Running
    /\ nevents' = nevents + 1
    /\ last_event' = Event("RedrawRequested")
    /\ redraw_requested' = FALSE
    /\ UNCHANGED nspace
    /\ camera_buffer' = to_uniform(camera)
    /\ pc' = "updated"
    /\ UNCHANGED <<flipVars, cameraVars, dataVars, start_error, control_flow,
                   size, config, surface, background_color, model,
                   render_result, frame>>

RenderResults == {"Ok", "Timeout", "Outdated", "Lost", "OutOfMemory"}

\* State::render: get_current_texture()? returns the surface error; else
\* the frame is drawn with the active pipeline, the camera buffer, the
\* background colour and the model, and presented
render(result) ==
    IF result = "Ok"
    THEN frame' = [pipeline |-> Flip_get(render_pipelines),
                   camera |-> camera_buffer,
                   clear |-> background_color,
                   indices |-> model.num_vertices]
    ELSE UNCHANGED frame

\* a match that gives up when the surface is lost
redraw_match_exits_when_lost(result) ==
    IF result \in {"Lost", "OutOfMemory"}
    THEN /\ control_flow' = "Exit"
         /\ UNCHANGED <<size, config, surface>>
    ELSE UNCHANGED <<control_flow, size, config, surface>>

\* main, lines 463-468: what the handler does with render's result
redraw_match(result) ==
    IF result = "Lost"
    THEN /\ resize(size)
         /\ UNCHANGED control_flow
    ELSE IF result = "OutOfMemory"
    THEN /\ control_flow' = "Exit"
         /\ UNCHANGED <<size, config, surface>>
    ELSE UNCHANGED <<control_flow, size, config, surface>>

\* main, lines 463-468: the rest of the RedrawRequested handler
RedrawRender(result) ==
    /\ pc = "updated"
    /\ render(result)
    /\ render_result' = result
    /\ redraw_match(result)
    /\ pc' = "idle"
    /\ UNCHANGED <<flipVars, cameraVars, dataVars, start_error,
                   background_color, camera_buffer, model, redraw_requested,
                   nevents, last_event, nspace>>

Next ==
    \/ StateNew
    \/ \E event \in WindowEvents : WindowEvent(event)
    \/ MainEventsCleared
    \/ RedrawUpdate
    \/ \E result \in RenderResults : RedrawRender(result)

Spec == Init /\ [][Next]_vars

----------------------------------------------------------------------------
(* Claims about Flip, under SpecFlip *)

\* C1: a Flip made by new(A, B) holds A and B in that order; after n calls
\* of flip(), with get() calls anywhere between them, get() returns A when n
\* is even and B when n is odd, both for the get() made last and for one
\* made now.
FlipAlternates ==
    LET expected(n) == IF n % 2 = 0 THEN flipLog.first ELSE flipLog.second
    IN  /\ render_pipelines.alternatives = <<flipLog.first, flipLog.second>>
        /\ Flip_get(render_pipelines) = expected(flipLog.nflips)
        /\ flipLog.got # None => flipLog.got = expected(flipLog.got_after)

\* C1 witness: get() after two flips of a Flip of two different values
FlipTwiceGetsFirst ==
    /\ flipLog.first # flipLog.second
    /\ flipLog.nflips = 2
    /\ flipLog.got_after = 2
    /\ flipLog.got = flipLog.first

----------------------------------------------------------------------------
(* Claims about the camera, under SpecCamera *)

F16 == [m |-> 8388608, e |-> -19]           \* 16.0

Tol18 == [m |-> 8388608, e |-> -41]         \* 2^-18

Tol12 == [m |-> 8388608, e |-> -35]         \* 2^-12

Within(a, b, tol) == fle(fabs(fsub(a, b)), tol)

VecWithin(u, v, tol) ==
    Within(u.x, v.x, tol) /\ Within(u.y, v.y, tol) /\ Within(u.z, v.z, tol)

VecInRange(v) ==
    fle(fabs(v.x), F16) /\ fle(fabs(v.y), F16) /\ fle(fabs(v.z), F16)

InRange(c) == VecInRange(c.eye) /\ VecInRange(c.target)

IsF32Vec(v) == IsF32(v.x) /\ IsF32(v.y) /\ IsF32(v.z)

\* the model's arithmetic is used where it is the f32 arithmetic
CameraIsFinite ==
    camera # Unset =>
        IsF32Vec(camera.eye) /\ IsF32Vec(camera.target) /\ InRange(camera)

Offset(c) == vsub(c.target, c.eye)

LastCall == calls[Len(calls)]

LastIs(op) == Len(calls) > 0 /\ LastCall.op = op

\* the last two calls were op(arg) and then op(-arg)
LastTwoUndo(op) ==
    /\ Len(calls) = 2
    /\ calls[1].op = op
    /\ calls[2].op = op
    /\ calls[2].arg = fneg(calls[1].arg)

\* C2 (as claimed): the forward vector pan uses has length 1 whenever the
\* horizontal eye-to-target vector is not zero, so pan((0, 0, -d)) moves the
\* camera by a horizontal offset of length d: the offset's y is zero and its
\* squared length is d * d.
PanForwardIsUnit ==
    LastIs("pan") =>
        LET c == LastCall.before
            mov == LastCall.arg
            flat == [Offset(c) EXCEPT !.y = FZero]
            forwards == pan_forwards(c)
            offset == pan_offset(c, mov)
        IN  flat # Vec(FZero, FZero, FZero) =>
                /\ Within(dot(forwards, forwards), F1, Tol18)
                /\ (mov.x = FZero /\ mov.y = FZero) =>
                       /\ offset.y = FZero
                       /\ Within(dot(offset, offset), fmul(mov.z, mov.z), Tol18)

\* C3 (as claimed): after pan the vector target - eye is what it was before.
PanKeepsOffsetExactly ==
    LastIs("pan") => Offset(camera) = Offset(LastCall.before)

\* C3 (amended): pan adds one and the same offset to eye and to target and
\* changes nothing else; each sum is rounded to f32, so target - eye is
\* kept up to rounding: while all coordinates have magnitude at most 16,
\* every component of target - eye is within 2^-18 of what it was.
PanKeepsOffsetRounded ==
    LastIs("pan") =>
        LET c == LastCall.before
            offset == pan_offset(c, LastCall.arg)
        IN  /\ camera = [c EXCEPT !.eye = vadd(c.eye, offset),
                                  !.target = vadd(c.target, offset)]
            /\ (InRange(c) /\ InRange(camera)) =>
                   VecWithin(Offset(camera), Offset(c), Tol18)

\* C3 witness: a pan that moved the camera and after which target - eye is
\* not bit for bit what it was
PanRoundedOffset ==
    /\ LastIs("pan")
    /\ camera.eye # LastCall.before.eye
    /\ InRange(LastCall.before) /\ InRange(camera)
    /\ Offset(camera) # Offset(LastCall.before)

\* C4: pan with the zero vector leaves the camera as it was.
PanZeroIsIdentity ==
    (LastIs("pan") /\ LastCall.arg = Vec(FZero, FZero, FZero)) =>
        camera = LastCall.before

\* C4 witness: a zero pan of a camera that earlier calls have moved and turned
PanZeroAfterMoves ==
    /\ LastIs("pan")
    /\ LastCall.arg = Vec(FZero, FZero, FZero)
    /\ LastCall.before.eye # CameraNew(800, 600).eye
    /\ Offset(LastCall.before).x # FZero

\* C5 (as claimed): rotate_h leaves eye alone and the y component of
\* target - eye is after the call what it was before.
RotateHKeepsOffsetYExactly ==
    LastIs("rotate_h") =>
        /\ camera.eye = LastCall.before.eye
        /\ Offset(camera).y = Offset(LastCall.before).y

\* C5 (amended): rotate_h changes only target and leaves eye alone; the y
\* component of target - eye is passed through unrotated, target.y becoming
\* the f32 sum eye.y + (target.y - eye.y), so it is kept up to rounding:
\* while all coordinates have magnitude at most 16, it is within 2^-18 of
\* what it was.
RotateHKeepsEyeAndOffsetY ==
    LastIs("rotate_h") =>
        LET c == LastCall.before
        IN  /\ [camera EXCEPT !.target = c.target] = c
            /\ camera.target.y = fadd(c.eye.y, Offset(c).y)
            /\ (InRange(c) /\ InRange(camera)) =>
                   Within(Offset(camera).y, Offset(c).y, Tol18)

\* C5 witness: a rotate_h that turned the target of a camera whose target
\* is not level with the origin
RotateHTurnedTarget ==
    /\ LastIs("rotate_h")
    /\ camera.target.x # LastCall.before.target.x
    /\ camera.target.z # LastCall.before.target.z
    /\ LastCall.before.target.y # FZero
    /\ InRange(camera)

\* C6 (as claimed): rotate_h(a) and then rotate_h(-a) bring target back to
\* its value before the two calls.
RotateHRoundTripExact ==
    LastTwoUndo("rotate_h") =>
        /\ camera.eye = calls[1].before.eye
        /\ camera.target = calls[1].before.target

\* C6 (amended): rotate_h(a) and then rotate_h(-a) leave eye alone and bring
\* target back up to rounding: while all coordinates have magnitude at most
\* 16, every component of target is within 2^-12 of its value before the two
\* calls.
RotateHRoundTripRounded ==
    LastTwoUndo("rotate_h") =>
        /\ camera.eye = calls[1].before.eye
        /\ (InRange(calls[1].before) /\ InRange(calls[2].before)
              /\ InRange(camera)) =>
               VecWithin(camera.target, calls[1].before.target, Tol12)

\* C6 witness: a round trip that turned the target away and did not bring
\* it back bit for bit
RotateHRoundTripOff ==
    /\ LastTwoUndo("rotate_h")
    /\ calls[2].before.target # calls[1].before.target
    /\ camera.target # calls[1].before.target
    /\ InRange(calls[1].before) /\ InRange(calls[2].before) /\ InRange(camera)

\* the effect of rotate_v on everything but the round trip
RotateVFrame ==
    LastIs("rotate_v") =>
        LET c == LastCall.before
        IN  camera = [c EXCEPT !.eye.y = fsub(c.eye.y, LastCall.arg)]

\* C7 (as claimed): rotate_v(delta) subtracts delta from eye.y and changes
\* nothing else, and rotate_v(d) and then rotate_v(-d) bring eye.y back to
\* its value before the two calls.
RotateVRoundTripExact ==
    /\ RotateVFrame
    /\ LastTwoUndo("rotate_v") => camera.eye.y = calls[1].before.eye.y

\* C7 (amended): rotate_v(delta) sets eye.y to the f32 difference
\* eye.y - delta, unclamped, and changes nothing else; rotate_v(d) and then
\* rotate_v(-d) bring eye.y back up to rounding: while all coordinates have
\* magnitude at most 16, eye.y is within 2^-18 of its value before the two
\* calls.
RotateVShiftsEyeY ==
    /\ RotateVFrame
    /\ LastTwoUndo("rotate_v") =>
           /\ calls[1].before = [camera EXCEPT !.eye.y = calls[1].before.eye.y]
           /\ (InRange(calls[1].before) /\ InRange(calls[2].before)
                 /\ InRange(camera)) =>
                  Within(camera.eye.y, calls[1].before.eye.y, Tol18)

\* C7 witness: a round trip of rotate_v after which eye.y is not bit for
\* bit what it was
RotateVRoundTripOff ==
    /\ LastTwoUndo("rotate_v")
    /\ camera.eye.y # calls[1].before.eye.y
    /\ InRange(calls[1].before) /\ InRange(calls[2].before) /\ InRange(camera)

----------------------------------------------------------------------------
(* Claims about ModelData, under SpecModelData *)

\* C8: vertices() returns min(len(positions), len(uvs)) records, the i-th
\* made of the i-th position and the i-th uv of the file; indices() returns
\* the indices of the file; and the ModelData is after the calls what load
\* made of the file.
VerticesZipInOrder ==
    /\ vertices_out # Unset =>
           LET v == vertices_out.value
               n == Min(Len(file.positions), Len(file.uvs))
           IN  /\ Len(v) = n
               /\ \A i \in 1..n :
                      /\ v[i].position =
                             [k \in 1..3 |-> f32_of(file.positions[i][k])]
                      /\ v[i].uv = [k \in 1..2 |-> f32_of(file.uvs[i][k])]
               /\ model_data = Ok(Deserialized(file))
    /\ indices_out # Unset =>
           /\ indices_out.value = file.indices
           /\ model_data = Ok(Deserialized(file))

\* C8 witness: both calls made on a ModelData with three positions and two
\* uvs, so that vertices() has dropped a position
VerticesTruncated ==
    /\ vertices_out # Unset
    /\ indices_out # Unset
    /\ Len(file.positions) = 3
    /\ Len(file.uvs) = 2
    /\ Len(vertices_out.value) = 2
    /\ Len(indices_out.value) = 3

WellFormed(f) ==
    /\ f # NoFile
    /\ Has(f, "positions") /\ Has(f, "uvs") /\ Has(f, "indices")
    /\ IsArrayOf(f.positions, 3)
    /\ IsArrayOf(f.uvs, 2)
    /\ IsU16Array(f.indices)

\* C9: when the model file cannot be opened or is malformed, load returns an
\* error and nothing else (no ModelData, whole or partial), State::new
\* returns that error, and the program never builds a State or handles an
\* event: no camera, no pipelines, no model, no frame.
LoadFailureAbortsStartup ==
    ~WellFormed(file) =>
        /\ pc \in {"start", "failed"}
        /\ nevents = 0
        /\ model = Unset /\ camera = Unset /\ render_pipelines = Unset
        /\ size = Unset /\ frame = Unset /\ last_event = Unset
        /\ model_data # Unset =>
               /\ DOMAIN model_data = {"ok", "err"}
               /\ ~model_data.ok
               /\ pc = "failed"
               /\ start_error = model_data.err

\* C9 witness: startup has failed on a file that has positions and uvs but
\* no indices
LoadFailedOnMissingIndices ==
    /\ pc = "failed"
    /\ file # NoFile
    /\ Has(file, "positions") /\ Has(file, "uvs") /\ ~Has(file, "indices")
    /\ model_data # Unset
    /\ ~model_data.ok
    /\ start_error = "missing field indices"

\* C10: the end of a redraw leaves the camera and the pipelines as they
\* were; after a Lost error the surface has been configured once more, with
\* the unchanged size, and the control flow is what it was, so that a loop
\* that was polling goes on polling; after OutOfMemory the loop is set to
\* exit; after any other error nothing of the surface, the size or the
\* control flow has changed; and no error draws a frame.
RenderErrorHandling ==
    [][(pc = "updated" /\ pc' = "idle") =>
          /\ camera' = camera
          /\ render_pipelines' = render_pipelines
          /\ render_result' # "Ok" => frame' = frame
          /\ render_result' = "Lost" =>
                 /\ size' = size
                 /\ surface'.config = size
                 /\ surface'.nconfigure = surface.nconfigure + 1
                 /\ control_flow' = control_flow
          /\ render_result' = "OutOfMemory" =>
                 /\ control_flow' = "Exit"
                 /\ UNCHANGED <<size, config, surface>>
          /\ render_result' \in {"Timeout", "Outdated"} =>
                 /\ control_flow' = control_flow
                 /\ UNCHANGED <<size, config, surface>>]_vars

\* C10 witness: a redraw after a resize to 1024x768 has ended with Lost, the
\* surface has been configured a third time, and the loop is still polling
SurfaceLostReconfigured ==
    /\ render_result = "Lost"
    /\ pc = "idle"
    /\ control_flow = "Poll"
    /\ size = [width |-> 1024, height |-> 768]
    /\ surface = [config |-> size, nconfigure |-> 3]

----------------------------------------------------------------------------
(* Claims about the frame loop, under Spec *)

\* C11: a redraw is update and then render with nothing between them: from
\* the update on, the camera buffer holds the uniform of the current camera
\* and the only step is the render, which changes neither the camera nor
\* the pipelines; a frame is drawn only by such a render, with the uniform
\* of the camera and the pipeline that get() returns at that moment.
FrameUsesCurrentCamera ==
    [][/\ (pc = "idle" /\ pc' = "updated") =>
              /\ camera' = camera
              /\ camera_buffer' = to_uniform(camera)
       /\ pc = "updated" =>
              /\ camera_buffer = to_uniform(camera)
              /\ pc' = "idle"
              /\ nevents' = nevents
              /\ UNCHANGED <<camera, camera_buffer, render_pipelines>>
       /\ frame' # frame => pc = "updated" /\ render_result' = "Ok"
       /\ (pc = "updated" /\ render_result' = "Ok") =>
              /\ frame'.camera = to_uniform(camera)
              /\ frame'.pipeline = Flip_get(render_pipelines)]_vars

\* C11 witness: a frame drawn after a Space press and a camera key, with the
\* second pipeline and the uniform of the moved camera
FrameAfterInputs ==
    /\ frame # Unset
    /\ pc = "idle"
    /\ render_result = "Ok"
    /\ frame.pipeline = "render_pipeline_alter"
    /\ frame.camera = to_uniform(camera)
    /\ camera # CameraNew(size.width, size.height)

\* C12: a step that handles a Space key in the Pressed state toggles the
\* active pipeline, keeping both pipelines and the camera; every other
\* step of the running program (a key release, a camera key, a cursor
\* move, a resize, any other event, a render with or without an error)
\* leaves the Flip as it was; so get() returns the first pipeline exactly
\* when the number of Space presses is even, and that is the pipeline of
\* every frame drawn.
SpaceTogglesPipeline ==
    [][/\ render_pipelines # Unset =>
              IF nevents' = nevents + 1 /\ IsSpacePress(last_event')
              THEN /\ nspace' = nspace + 1
                   /\ render_pipelines'.alternatives =
                          render_pipelines.alternatives
                   /\ render_pipelines'.state = ~render_pipelines.state
                   /\ camera' = camera
              ELSE /\ nspace' = nspace
                   /\ render_pipelines' = render_pipelines
       /\ render_pipelines' # Unset =>
              /\ Flip_get(render_pipelines') = "render_pipeline"
                     <=> nspace' % 2 = 0
              /\ Flip_get(render_pipelines') = "render_pipeline_alter"
                     <=> nspace' % 2 = 1
       /\ (pc = "updated" /\ render_result' = "Ok") =>
              (frame'.pipeline = "render_pipeline" <=> nspace % 2 = 0)]_vars

\* C12 witness: a frame drawn with the first pipeline after two Space
\* presses that left the camera where Camera::new put it
FrameAfterTwoSpacePresses ==
    /\ nspace = 2
    /\ last_event = Event("RedrawRequested")
    /\ render_result = "Ok"
    /\ frame # Unset
    /\ frame.pipeline = "render_pipeline"
    /\ Flip_get(render_pipelines) = "render_pipeline"
    /\ camera = CameraNew(size.width, size.height)

====
